---- MODULE Spec2Model ----
(***************************************************************************)
(* Model of docker/mcp-wpops/server/app.py: the WordPressOpsServer tool    *)
(* dispatcher (call_tool), its sixteen command builders and the process    *)
(* runner (_execute_agent_command).                                        *)
(*                                                                         *)
(* Python values are tagged records (Val) so that values of different      *)
(* Python types can sit in one dict or one argument vector.  A dict is a   *)
(* sequence of <<key, value>> pairs in insertion order.  Text is a TLA+    *)
(* string; byte strings carry whether they decode as UTF-8.                *)
(***************************************************************************)
EXTENDS Integers, Sequences, FiniteSets, TLC

\* ------------------------------------------------------------------ bounds
\* Number of call_tool invocations that may be in flight together.
NumInv == 2
\* Longest list value (plugins, themes, scan_types, checks) in a request.
MaxListLen == 2

\* ----------------------------------------------------------- Python values
VNull == [t |-> "null", n |-> 0, s |-> "", b |-> FALSE, l |-> <<>>, o |-> <<>>]
VBool(x) == [t |-> "bool", n |-> 0, s |-> "", b |-> x, l |-> <<>>, o |-> <<>>]
VInt(x) == [t |-> "int", n |-> x, s |-> "", b |-> FALSE, l |-> <<>>, o |-> <<>>]
VStr(x) == [t |-> "str", n |-> 0, s |-> x, b |-> FALSE, l |-> <<>>, o |-> <<>>]
VList(xs) == [t |-> "list", n |-> 0, s |-> "", b |-> FALSE, l |-> xs, o |-> <<>>]
VDict(ps) == [t |-> "dict", n |-> 0, s |-> "", b |-> FALSE, l |-> <<>>, o |-> ps]

\* `k in d` for a dict d.
Has(d, k) == \E j \in 1..Len(d.o) : d.o[j][1] = k
\* d[k] for a key that is present.
Get(d, k) == d.o[CHOOSE j \in 1..Len(d.o) : d.o[j][1] = k][2]

\* type(v).__name__
TypeName(v) ==
    CASE v.t = "null" -> "NoneType"
      [] v.t = "bool" -> "bool"
      [] v.t = "int" -> "int"
      [] v.t = "str" -> "str"
      [] v.t = "list" -> "list"
      [] OTHER -> "dict"

\* bool(v): Python truthiness.
Truthy(v) ==
    CASE v.t = "null" -> FALSE
      [] v.t = "bool" -> v.b
      [] v.t = "int" -> v.n # 0
      [] v.t = "str" -> v.s # ""
      [] v.t = "list" -> v.l # <<>>
      [] OTHER -> v.o # <<>>

Digit(d) == <<"0", "1", "2", "3", "4", "5", "6", "7", "8", "9">>[d + 1]

RECURSIVE NatToStr(_)
NatToStr(n) == IF n < 10 THEN Digit(n) ELSE NatToStr(n \div 10) \o Digit(n % 10)

\* str(n) for an int.
IntToStr(n) == IF n < 0 THEN "-" \o NatToStr(0 - n) ELSE NatToStr(n)

\* str(v) for the scalar values a request can carry.
PyStr(v) ==
    CASE v.t = "int" -> IntToStr(v.n)
      [] v.t = "str" -> v.s
      [] v.t = "bool" -> (IF v.b THEN "True" ELSE "False")
      [] OTHER -> "None"

\* key.replace("_", "-") on the option keys of the tool schemas; a key
\* without an underscore is returned as it is.
Replace(key) ==
    CASE key = "disable_file_editing" -> "disable-file-editing"
      [] key = "hide_wp_version" -> "hide-wp-version"
      [] key = "disable_xmlrpc" -> "disable-xmlrpc"
      [] key = "limit_login_attempts" -> "limit-login-attempts"
      [] key = "secure_wp_config" -> "secure-wp-config"
      [] key = "dry_run" -> "dry-run"
      [] OTHER -> key

\* --------------------------------------------------------- configuration
agent_path == "/app/agent"
php_cli == "php"

\* The names of self.tools, in registration order.
ToolNames ==
    <<"list_sites", "get_site_info", "lock_site", "unlock_site", "harden_site",
      "unharden_site", "fix_permissions", "scan_site", "backup_site",
      "restore_site", "update_plugins", "update_themes", "update_core",
      "validate_sites", "get_jobs", "get_dashboard_stats">>

Registered(name) == \E j \in 1..Len(ToolNames) : ToolNames[j] = name

\* The tools whose inputSchema carries the oneOf identifier group.
IdentifierTools ==
    {"get_site_info", "lock_site", "unlock_site", "harden_site", "unharden_site",
     "fix_permissions", "scan_site", "backup_site", "restore_site",
     "update_plugins", "update_themes", "update_core"}

\* ------------------------------------------------------------ inputSchema
\* One property of an inputSchema: its JSON type, its enum (empty: none),
\* its minimum and maximum (ranged), the enum of its items (arrays) and the
\* properties of a nested object.
Prop(type) ==
    [type |-> type, enum |-> {}, ranged |-> FALSE, minimum |-> 0, maximum |-> 0,
     items |-> {}, properties |-> <<>>]
Enum(values) == [Prop("string") EXCEPT !.enum = values]
Range(lo, hi) == [Prop("integer") EXCEPT !.ranged = TRUE, !.minimum = lo, !.maximum = hi]
Array(values) == [Prop("array") EXCEPT !.items = values]
Object(properties) == [Prop("object") EXCEPT !.properties = properties]

SiteProps == << <<"site_id", Prop("integer")>>, <<"site_path", Prop("string")>> >>
EitherSite == <<{"site_id"}, {"site_path"}>>
Schema(properties, oneOf) == [properties |-> properties, oneOf |-> oneOf]

\* The inputSchema of each Tool of self.tools.
InputSchema(name) ==
    CASE name = "list_sites" ->
           Schema(<< <<"status", Enum({"active", "inactive", "locked", "all"})>>,
                     <<"limit", Range(1, 1000)>> >>, <<>>)
      [] name \in {"get_site_info", "unlock_site", "unharden_site"} ->
           Schema(SiteProps, EitherSite)
      [] name = "lock_site" ->
           Schema(SiteProps \o << <<"message", Prop("string")>> >>, EitherSite)
      [] name = "harden_site" ->
           Schema(SiteProps \o << <<"options", Object(<<
                      <<"disable_file_editing", Prop("boolean")>>,
                      <<"hide_wp_version", Prop("boolean")>>,
                      <<"disable_xmlrpc", Prop("boolean")>>,
                      <<"limit_login_attempts", Prop("boolean")>>,
                      <<"secure_wp_config", Prop("boolean")>> >>)>> >>, EitherSite)
      [] name = "fix_permissions" ->
           Schema(SiteProps \o << <<"options", Object(<<
                      <<"recursive", Prop("boolean")>>,
                      <<"dry_run", Prop("boolean")>>,
                      <<"owner", Prop("string")>>,
                      <<"group", Prop("string")>> >>)>> >>, EitherSite)
      [] name = "scan_site" ->
           Schema(SiteProps \o << <<"scan_types",
                      Array({"malware", "vulnerabilities", "integrity",
                             "permissions", "all"})>> >>, EitherSite)
      [] name = "backup_site" ->
           Schema(SiteProps \o << <<"backup_type", Enum({"full", "files", "database"})>>,
                                  <<"compression", Prop("boolean")>> >>, EitherSite)
      [] name = "restore_site" ->
           Schema(SiteProps \o << <<"backup_id", Prop("string")>>,
                                  <<"restore_type", Enum({"full", "files", "database"})>> >>,
                  <<{"site_id", "backup_id"}, {"site_path", "backup_id"}>>)
      [] name = "update_plugins" ->
           Schema(SiteProps \o << <<"plugins", Prop("array")>>,
                                  <<"dry_run", Prop("boolean")>> >>, EitherSite)
      [] name = "update_themes" ->
           Schema(SiteProps \o << <<"themes", Prop("array")>>,
                                  <<"dry_run", Prop("boolean")>> >>, EitherSite)
      [] name = "update_core" ->
           Schema(SiteProps \o << <<"version", Prop("string")>>,
                                  <<"dry_run", Prop("boolean")>> >>, EitherSite)
      [] name = "validate_sites" ->
           Schema(<< <<"site_id", Prop("integer")>>,
                     <<"checks", Array({"core", "plugins", "themes", "database",
                                        "permissions", "all"})>> >>, <<>>)
      [] name = "get_jobs" ->
           Schema(<< <<"status", Enum({"pending", "running", "completed", "failed", "all"})>>,
                     <<"site_id", Prop("integer")>>,
                     <<"limit", Range(1, 1000)>> >>, <<>>)
      [] OTHER -> Schema(<<>>, <<>>)

\* A value against a property schema without nested properties.
FlatValid(v, p) ==
    /\ v.t = (CASE p.type = "string" -> "str"
                [] p.type = "integer" -> "int"
                [] p.type = "boolean" -> "bool"
                [] p.type = "array" -> "list"
                [] OTHER -> "dict")
    /\ p.enum # {} => v.s \in p.enum
    /\ p.ranged => v.n >= p.minimum /\ v.n <= p.maximum
    /\ p.type = "array" =>
         \A j \in 1..Len(v.l) :
            v.l[j].t = "str" /\ (p.items # {} => v.l[j].s \in p.items)

\* The declared properties that are present are valid (others are free).
PropertiesValid(d, properties) ==
    \A j \in 1..Len(d.o) : \A q \in 1..Len(properties) :
        d.o[j][1] = properties[q][1] =>
            /\ FlatValid(d.o[j][2], properties[q][2])
            /\ properties[q][2].type = "object" =>
                 \A a \in 1..Len(d.o[j][2].o) :
                    \A c \in 1..Len(properties[q][2].properties) :
                        d.o[j][2].o[a][1] = properties[q][2].properties[c][1] =>
                            FlatValid(d.o[j][2].o[a][2],
                                      properties[q][2].properties[c][2])

\* The argument bag satisfies the tool's declared inputSchema: property
\* types, enums and ranges, and exactly one alternative of oneOf.
Conforms(name, args) ==
    LET schema == InputSchema(name)
    IN /\ PropertiesValid(args, schema.properties)
       /\ schema.oneOf # <<>> =>
            Cardinality({q \in 1..Len(schema.oneOf) :
                            \A key \in schema.oneOf[q] : Has(args, key)}) = 1

\* ------------------------------------------------------- command builders
\* What a builder does: hand a command to the process runner, return a
\* dict of its own, or raise.
Exec(command, cmd_args) ==
    [k |-> "exec", command |-> command, cmd_args |-> cmd_args,
     value |-> VNull, exc |-> "", msg |-> ""]
Return(value) ==
    [k |-> "return", command |-> "", cmd_args |-> <<>>,
     value |-> value, exc |-> "", msg |-> ""]
Raise(exc, msg) ==
    [k |-> "raise", command |-> "", cmd_args |-> <<>>,
     value |-> VNull, exc |-> exc, msg |-> msg]

IdentifierRequired ==
    VDict(<< <<"success", VBool(FALSE)>>,
            <<"error", VStr("Either site_id or site_path is required")>> >>)

\* The if/elif/else that opens each of the twelve identifier builders:
\* whether it gets past the else branch.
HasIdentifier(args) == Has(args, "site_id") \/ Has(args, "site_path")

\* ... and the tokens it appends: site_id wins over site_path.
\* An identifier group read with two independent tests instead of if/elif.
SiteIdentifierBoth(args) ==
    (IF Has(args, "site_id")
     THEN <<VStr("--id"), VStr(PyStr(Get(args, "site_id")))>> ELSE <<>>)
    \o (IF Has(args, "site_path")
        THEN <<VStr("--path"), Get(args, "site_path")>> ELSE <<>>)

SiteIdentifier(args) ==
    IF Has(args, "site_id")
    THEN <<VStr("--id"), VStr(PyStr(Get(args, "site_id")))>>
    ELSE IF Has(args, "site_path")
    THEN <<VStr("--path"), Get(args, "site_path")>>
    ELSE <<>>

\* `for x in v` is possible.
Iterable(v) == v.t \in {"list", "dict", "str"}

\* The elements `for x in v` visits (a str is split into its characters:
\* exact here for strings of at most one character).
Elements(v) ==
    CASE v.t = "list" -> v.l
      [] v.t = "dict" -> [j \in 1..Len(v.o) |-> VStr(v.o[j][1])]
      [] v.t = "str" -> (IF v.s = "" THEN <<>> ELSE <<v>>)
      [] OTHER -> <<>>

NotIterable(v) == Raise("TypeError", "'" \o TypeName(v) \o "' object is not iterable")
NoItems(v) ==
    Raise("AttributeError", "'" \o TypeName(v) \o "' object has no attribute 'items'")

\* for x in xs: cmd_args.extend([flag, x])
\* A loop that puts each new pair in front of the ones before it.
RECURSIVE RepeatedReversed(_, _)
RepeatedReversed(flag, xs) ==
    IF xs = <<>> THEN <<>>
    ELSE RepeatedReversed(flag, Tail(xs)) \o <<VStr(flag), Head(xs)>>

RECURSIVE Repeated(_, _)
Repeated(flag, xs) ==
    IF xs = <<>> THEN <<>>
    ELSE <<VStr(flag), Head(xs)>> \o Repeated(flag, Tail(xs))

\* A hardening loop in the style of the other builders: nothing for false.
RECURSIVE HardenFlagsTrueOnly(_)
HardenFlagsTrueOnly(items) ==
    IF items = <<>> THEN <<>>
    ELSE LET key == Head(items)[1]
             value == Head(items)[2]
         IN (IF value.t = "bool" /\ value.b
             THEN <<VStr("--" \o Replace(key))>>
             ELSE <<>>) \o HardenFlagsTrueOnly(Tail(items))

\* The options loop of _harden_site.
RECURSIVE HardenFlags(_)
HardenFlags(items) ==
    IF items = <<>> THEN <<>>
    ELSE LET key == Head(items)[1]
             value == Head(items)[2]
         IN (IF value.t = "bool"
             THEN (IF value.b
                   THEN <<VStr("--" \o Replace(key))>>
                   ELSE <<VStr("--no-" \o Replace(key))>>)
             ELSE <<>>) \o HardenFlags(Tail(items))

\* A permissions loop that, like the hardening loop, reads booleans only.
RECURSIVE PermissionFlagsBooleansOnly(_)
PermissionFlagsBooleansOnly(items) ==
    IF items = <<>> THEN <<>>
    ELSE LET key == Head(items)[1]
             value == Head(items)[2]
         IN (IF value.t = "bool" /\ value.b
             THEN <<VStr("--" \o Replace(key))>>
             ELSE <<>>) \o PermissionFlagsBooleansOnly(Tail(items))

\* The options loop of _fix_permissions.
RECURSIVE PermissionFlags(_)
PermissionFlags(items) ==
    IF items = <<>> THEN <<>>
    ELSE LET key == Head(items)[1]
             value == Head(items)[2]
         IN (IF value.t = "bool"
             THEN (IF value.b THEN <<VStr("--" \o Replace(key))>> ELSE <<>>)
             ELSE IF value.t = "str"
             THEN <<VStr("--" \o Replace(key)), value>>
             ELSE <<>>) \o PermissionFlags(Tail(items))

_list_sites(args) ==
    Exec("sites:list",
         (IF Has(args, "status") /\ Get(args, "status") # VStr("all")
          THEN <<VStr("--status"), Get(args, "status")>> ELSE <<>>)
         \o (IF Has(args, "limit")
             THEN <<VStr("--limit"), VStr(PyStr(Get(args, "limit")))>> ELSE <<>>))

_get_site_info(args) ==
    IF ~HasIdentifier(args) THEN Return(IdentifierRequired)
    ELSE Exec("sites:info", SiteIdentifier(args))

\* A lock builder that forgets the message.
_lock_site_without_message(args) ==
    IF ~HasIdentifier(args) THEN Return(IdentifierRequired)
    ELSE Exec("sites:lock", SiteIdentifier(args))

_lock_site(args) ==
    IF ~HasIdentifier(args) THEN Return(IdentifierRequired)
    ELSE Exec("sites:lock",
              SiteIdentifier(args)
              \o (IF Has(args, "message")
                  THEN <<VStr("--message"), Get(args, "message")>> ELSE <<>>))

\* An unlock builder left with the command of the builder it was copied from.
_unlock_site_as_lock(args) ==
    IF ~HasIdentifier(args) THEN Return(IdentifierRequired)
    ELSE Exec("sites:lock", SiteIdentifier(args))

_unlock_site(args) ==
    IF ~HasIdentifier(args) THEN Return(IdentifierRequired)
    ELSE Exec("sites:unlock", SiteIdentifier(args))

_harden_site(args) ==
    IF ~HasIdentifier(args) THEN Return(IdentifierRequired)
    ELSE IF ~Has(args, "options") THEN Exec("sites:harden", SiteIdentifier(args))
    ELSE IF Get(args, "options").t # "dict" THEN NoItems(Get(args, "options"))
    ELSE Exec("sites:harden",
              SiteIdentifier(args) \o HardenFlags(Get(args, "options").o))

_unharden_site(args) ==
    IF ~HasIdentifier(args) THEN Return(IdentifierRequired)
    ELSE Exec("sites:unharden", SiteIdentifier(args))

_fix_permissions(args) ==
    IF ~HasIdentifier(args) THEN Return(IdentifierRequired)
    ELSE IF ~Has(args, "options")
    THEN Exec("sites:fix-permissions", SiteIdentifier(args))
    ELSE IF Get(args, "options").t # "dict" THEN NoItems(Get(args, "options"))
    ELSE Exec("sites:fix-permissions",
              SiteIdentifier(args) \o PermissionFlags(Get(args, "options").o))

_scan_site(args) ==
    IF ~HasIdentifier(args) THEN Return(IdentifierRequired)
    ELSE IF ~Has(args, "scan_types") THEN Exec("sites:scan", SiteIdentifier(args))
    ELSE IF ~Iterable(Get(args, "scan_types"))
    THEN NotIterable(Get(args, "scan_types"))
    ELSE Exec("sites:scan",
              SiteIdentifier(args)
              \o Repeated("--scan", Elements(Get(args, "scan_types"))))

_backup_site(args) ==
    IF ~HasIdentifier(args) THEN Return(IdentifierRequired)
    ELSE Exec("sites:backup",
              SiteIdentifier(args)
              \o (IF Has(args, "backup_type")
                  THEN <<VStr("--type"), Get(args, "backup_type")>> ELSE <<>>)
              \o (IF Has(args, "compression") /\ Truthy(Get(args, "compression"))
                  THEN <<VStr("--compress")>> ELSE <<>>))

\* _restore_site reading args['backup_id'] before its identifier check.
_restore_site_backup_first(args) ==
    IF ~Has(args, "backup_id") THEN Raise("KeyError", "'backup_id'")
    ELSE IF ~HasIdentifier(args) THEN Return(IdentifierRequired)
    ELSE Exec("sites:restore",
              SiteIdentifier(args)
              \o <<VStr("--backup-id"), Get(args, "backup_id")>>
              \o (IF Has(args, "restore_type")
                  THEN <<VStr("--type"), Get(args, "restore_type")>> ELSE <<>>))

_restore_site(args) ==
    IF ~HasIdentifier(args) THEN Return(IdentifierRequired)
    ELSE IF ~Has(args, "backup_id") THEN Raise("KeyError", "'backup_id'")
    ELSE Exec("sites:restore",
              SiteIdentifier(args)
              \o <<VStr("--backup-id"), Get(args, "backup_id")>>
              \o (IF Has(args, "restore_type")
                  THEN <<VStr("--type"), Get(args, "restore_type")>> ELSE <<>>))

\* The list and dry_run part shared in shape by _update_plugins and
\* _update_themes: `key in args and args[key]`, then the loop.
UpdateList(args, key, flag) ==
    IF Has(args, key) /\ Truthy(Get(args, key))
    THEN Repeated(flag, Elements(Get(args, key)))
    ELSE <<>>

DryRun(args) ==
    IF Has(args, "dry_run") /\ Truthy(Get(args, "dry_run"))
    THEN <<VStr("--dry-run")>> ELSE <<>>

_update_plugins(args) ==
    IF ~HasIdentifier(args) THEN Return(IdentifierRequired)
    ELSE IF Has(args, "plugins") /\ Truthy(Get(args, "plugins"))
            /\ ~Iterable(Get(args, "plugins"))
    THEN NotIterable(Get(args, "plugins"))
    ELSE Exec("sites:update-plugins",
              SiteIdentifier(args) \o UpdateList(args, "plugins", "--plugin")
              \o DryRun(args))

_update_themes(args) ==
    IF ~HasIdentifier(args) THEN Return(IdentifierRequired)
    ELSE IF Has(args, "themes") /\ Truthy(Get(args, "themes"))
            /\ ~Iterable(Get(args, "themes"))
    THEN NotIterable(Get(args, "themes"))
    ELSE Exec("sites:update-themes",
              SiteIdentifier(args) \o UpdateList(args, "themes", "--theme")
              \o DryRun(args))

_update_core(args) ==
    IF ~HasIdentifier(args) THEN Return(IdentifierRequired)
    ELSE Exec("sites:update-core",
              SiteIdentifier(args)
              \o (IF Has(args, "version") /\ Truthy(Get(args, "version"))
                  THEN <<VStr("--version"), Get(args, "version")>> ELSE <<>>)
              \o DryRun(args))

_validate_sites(args) ==
    IF Has(args, "checks") /\ ~Iterable(Get(args, "checks"))
    THEN NotIterable(Get(args, "checks"))
    ELSE Exec("validate:sites",
              (IF Has(args, "site_id")
               THEN <<VStr("--id"), VStr(PyStr(Get(args, "site_id")))>> ELSE <<>>)
              \o (IF Has(args, "checks")
                  THEN Repeated("--check", Elements(Get(args, "checks")))
                  ELSE <<>>))

_get_jobs(args) ==
    Exec("jobs:list",
         (IF Has(args, "status") /\ Get(args, "status") # VStr("all")
          THEN <<VStr("--status"), Get(args, "status")>> ELSE <<>>)
         \o (IF Has(args, "site_id")
             THEN <<VStr("--site-id"), VStr(PyStr(Get(args, "site_id")))>> ELSE <<>>)
         \o (IF Has(args, "limit")
             THEN <<VStr("--limit"), VStr(PyStr(Get(args, "limit")))>> ELSE <<>>))

_get_dashboard_stats(args) == Exec("dashboard:stats", <<>>)

\* request.params.arguments or {}
Arguments(arguments) == IF Truthy(arguments) THEN arguments ELSE VDict(<<>>)

\* The if/elif chain of call_tool: the builder of the named tool, or the
\* ValueError of the final else.
Route(tool_name, args) ==
    CASE tool_name = "list_sites" -> _list_sites(args)
      [] tool_name = "get_site_info" -> _get_site_info(args)
      [] tool_name = "lock_site" -> _lock_site(args)
      [] tool_name = "unlock_site" -> _unlock_site(args)
      [] tool_name = "harden_site" -> _harden_site(args)
      [] tool_name = "unharden_site" -> _unharden_site(args)
      [] tool_name = "fix_permissions" -> _fix_permissions(args)
      [] tool_name = "scan_site" -> _scan_site(args)
      [] tool_name = "backup_site" -> _backup_site(args)
      [] tool_name = "restore_site" -> _restore_site(args)
      [] tool_name = "update_plugins" -> _update_plugins(args)
      [] tool_name = "update_themes" -> _update_themes(args)
      [] tool_name = "update_core" -> _update_core(args)
      [] tool_name = "validate_sites" -> _validate_sites(args)
      [] tool_name = "get_jobs" -> _get_jobs(args)
      [] tool_name = "get_dashboard_stats" -> _get_dashboard_stats(args)
      [] OTHER -> Raise("ValueError", "Unknown tool: " \o tool_name)

\* ---------------------------------------------------------- process runner
\* cmd = [self.php_cli, f"{self.agent_path}/cli.php", command] + args
CommandLine(command, args) ==
    <<VStr(php_cli), VStr(agent_path \o "/cli.php"), VStr(command)>> \o args

\* Captured bytes: the text they decode to, or not UTF-8 at all.
Bytes(text) == [valid |-> TRUE, text |-> text]
BadBytes == [valid |-> FALSE, text |-> ""]
\* `if stderr`: a bytes object is true when it is not empty.
NonEmpty(bytes) == ~bytes.valid \/ bytes.text # ""

UnicodeMessage ==
    "'utf-8' codec can't decode byte 0xff in position 0: invalid start byte"

\* The documents json.loads accepts among the texts a child prints here,
\* with the value it returns for each.
JsonDocuments ==
    ("{\"success\": true, \"sites\": 3}"
        :> VDict(<< <<"success", VBool(TRUE)>>, <<"sites", VInt(3)>> >>))
    @@ ("{\"success\": false, \"error\": \"site not found\"}"
        :> VDict(<< <<"success", VBool(FALSE)>>,
                    <<"error", VStr("site not found")>> >>))
    @@ ("42" :> VInt(42))

\* json.loads(text) succeeds / what it returns.
IsJson(text) == text \in DOMAIN JsonDocuments
JsonLoads(text) == JsonDocuments[text]

\* A handler that names one exception class instead of Exception.
IsExceptionValueErrorOnly(exc) == exc = "ValueError"

\* `except Exception`, on the runner (line 559) and on call_tool (line 516):
\* the classes it catches, which are all the classes raised here.
IsException(exc) ==
    exc \in {"ValueError", "KeyError", "TypeError", "AttributeError",
             "UnicodeDecodeError", "FileNotFoundError"}

RunnerError(msg) ==
    VDict(<< <<"success", VBool(FALSE)>>,
             <<"error", VStr("Failed to execute command: " \o msg)>> >>)

\* A runner without its try/except: what the try raised leaves it.
RunnerCatchNothing(r) == r

\* The except clause of _execute_agent_command around what its try raised.
RunnerCatch(r) ==
    IF r.k = "raise" /\ IsException(r.exc) THEN Return(RunnerError(r.msg)) ELSE r

\* asyncio.create_subprocess_exec(*cmd, cwd=agent_path): a token that is no
\* str is refused before any process exists; otherwise the system decides
\* (start = "ok", or "missing" when the interpreter is not found).
StartProcess(argv, start) ==
    IF \E j \in 1..Len(argv) : argv[j].t # "str"
    THEN LET j == CHOOSE j \in 1..Len(argv) : argv[j].t # "str"
         IN Raise("TypeError",
                  "expected str, bytes or os.PathLike object, not "
                  \o TypeName(argv[j]))
    ELSE IF start = "missing"
    THEN Raise("FileNotFoundError",
               "[Errno 2] No such file or directory: '" \o argv[1].s \o "'")
    ELSE Return(VNull)

\* A runner that tries json.loads before it looks at the exit status.
DecodeOutputParseFirst(er) ==
    IF er.stdout.valid /\ IsJson(er.stdout.text) THEN Return(JsonLoads(er.stdout.text))
    ELSE IF er.returncode = 0
    THEN IF ~er.stdout.valid \/ ~er.stderr.valid
         THEN Raise("UnicodeDecodeError", UnicodeMessage)
         ELSE Return(VDict(<< <<"success", VBool(TRUE)>>,
                              <<"output", VStr(er.stdout.text)>>,
                              <<"error", IF NonEmpty(er.stderr)
                                         THEN VStr(er.stderr.text) ELSE VNull>> >>))
    ELSE IF ~er.stderr.valid THEN Raise("UnicodeDecodeError", UnicodeMessage)
    ELSE Return(VDict(<< <<"success", VBool(FALSE)>>,
                         <<"error", IF NonEmpty(er.stderr)
                                    THEN VStr(er.stderr.text)
                                    ELSE VStr("Command failed")>>,
                         <<"exit_code", VInt(er.returncode)>> >>))

\* Lines 543-557: what the try block does with a finished process.
DecodeOutput(er) ==
    IF er.returncode = 0
    THEN IF ~er.stdout.valid THEN Raise("UnicodeDecodeError", UnicodeMessage)
         ELSE IF IsJson(er.stdout.text) THEN Return(JsonLoads(er.stdout.text))
         ELSE IF ~er.stderr.valid THEN Raise("UnicodeDecodeError", UnicodeMessage)
         ELSE Return(VDict(<< <<"success", VBool(TRUE)>>,
                              <<"output", VStr(er.stdout.text)>>,
                              <<"error", IF NonEmpty(er.stderr)
                                         THEN VStr(er.stderr.text) ELSE VNull>> >>))
    ELSE IF ~er.stderr.valid THEN Raise("UnicodeDecodeError", UnicodeMessage)
    ELSE Return(VDict(<< <<"success", VBool(FALSE)>>,
                         <<"error", IF NonEmpty(er.stderr)
                                    THEN VStr(er.stderr.text)
                                    ELSE VStr("Command failed")>>,
                         <<"exit_code", VInt(er.returncode)>> >>))

\* ------------------------------------------------------------ json.dumps
RECURSIVE Indent(_)
Indent(level) == IF level = 0 THEN "" ELSE "  " \o Indent(level - 1)

\* json.dumps(v, indent=2); the texts serialised here hold no character
\* that json.dumps escapes.
RECURSIVE JsonDumpsAt(_, _)
RECURSIVE JsonItems(_, _, _)
JsonItems(v, j, level) ==
    LET n == IF v.t = "list" THEN Len(v.l) ELSE Len(v.o)
        item == IF v.t = "list" THEN JsonDumpsAt(v.l[j], level)
                ELSE "\"" \o v.o[j][1] \o "\": " \o JsonDumpsAt(v.o[j][2], level)
    IN Indent(level) \o item
       \o (IF j = n THEN "\n" ELSE ",\n" \o JsonItems(v, j + 1, level))
JsonDumpsAt(v, level) ==
    CASE v.t = "null" -> "null"
      [] v.t = "bool" -> (IF v.b THEN "true" ELSE "false")
      [] v.t = "int" -> IntToStr(v.n)
      [] v.t = "str" -> "\"" \o v.s \o "\""
      [] v.t = "list" ->
           (IF v.l = <<>> THEN "[]"
            ELSE "[\n" \o JsonItems(v, 1, level + 1) \o Indent(level) \o "]")
      [] OTHER ->
           (IF v.o = <<>> THEN "{}"
            ELSE "{\n" \o JsonItems(v, 1, level + 1) \o Indent(level) \o "}")

JsonDumps(v) == JsonDumpsAt(v, 0)

\* The except branch built like the normal return, without isError=True.
CallToolResultUnflagged(text, isError) == [text |-> text, isError |-> FALSE]

\* CallToolResult(content=[TextContent(type="text", text=text)], isError=...)
CallToolResult(text, isError) == [text |-> text, isError |-> isError]

\* ------------------------------------------------------------------ inputs
\* One optional field of an argument bag: absent, or present with one of vs.
Field(key, vs) == {<<>>} \cup {<< <<key, v>> >> : v \in vs}

\* The lists of at most MaxListLen elements over a set of strings.
Lists(S) == UNION {{VList(xs) : xs \in [1..n -> {VStr(x) : x \in S}]} : n \in 0..MaxListLen}

\* The four ways to give the identifier group.
Identifiers ==
    {<<>>,
     << <<"site_id", VInt(5)>> >>,
     << <<"site_path", VStr("/var/www/blog")>> >>,
     << <<"site_id", VInt(5)>>, <<"site_path", VStr("/var/www/blog")>> >>}

Request(name, arguments) == [name |-> name, arguments |-> arguments]

HardenOptions ==
    {VDict(<<>>),
     VDict(<< <<"disable_file_editing", VBool(TRUE)>> >>),
     VDict(<< <<"hide_wp_version", VBool(FALSE)>>, <<"disable_xmlrpc", VBool(TRUE)>> >>),
     VDict(<< <<"level", VStr("high")>> >>),
     VStr("strict")}

PermissionOptions ==
    {VDict(<< <<"recursive", VBool(TRUE)>>, <<"dry_run", VBool(FALSE)>> >>),
     VDict(<< <<"dry_run", VBool(TRUE)>>, <<"owner", VStr("www-data")>> >>),
     VDict(<< <<"group", VStr("www-data")>>, <<"mode", VInt(755)>> >>)}

\* The requests a caller sends: every tool with its fields present or
\* absent, values inside and outside the declared schema, and names that
\* are not registered.
Requests ==
    {Request("list_sites", VDict(s \o l)) :
        s \in Field("status", {VStr("active"), VStr("all"), VStr("bogus"), VInt(7)}),
        l \in Field("limit", {VInt(10), VInt(0), VInt(1001)})}
    \cup {Request("get_site_info", VNull)}
    \cup {Request(n, VDict(id)) :
            n \in {"get_site_info", "unlock_site", "unharden_site"}, id \in Identifiers}
    \cup {Request("lock_site", VDict(id \o m)) :
            id \in Identifiers, m \in Field("message", {VStr("maintenance")})}
    \cup {Request("harden_site", VDict(id \o o)) :
            id \in Identifiers, o \in Field("options", HardenOptions)}
    \cup {Request("fix_permissions", VDict(id \o o)) :
            id \in Identifiers, o \in Field("options", PermissionOptions)}
    \cup {Request("scan_site", VDict(id \o s)) :
            id \in Identifiers,
            s \in Field("scan_types", Lists({"malware", "all"}) \cup {VInt(1)})}
    \cup {Request("backup_site", VDict(id \o t \o c)) :
            id \in Identifiers, t \in Field("backup_type", {VStr("files")}),
            c \in Field("compression", {VBool(TRUE), VBool(FALSE)})}
    \cup {Request("restore_site", VDict(id \o b \o t)) :
            id \in Identifiers, b \in Field("backup_id", {VStr("b1")}),
            t \in Field("restore_type", {VStr("full")})}
    \cup {Request("update_plugins", VDict(id \o p \o d)) :
            id \in Identifiers, p \in Field("plugins", Lists({"a", "b"})),
            d \in Field("dry_run", {VBool(TRUE), VBool(FALSE)})}
    \cup {Request("update_themes", VDict(id \o p \o d)) :
            id \in Identifiers, p \in Field("themes", Lists({"a", "b"})),
            d \in Field("dry_run", {VBool(TRUE), VBool(FALSE)})}
    \cup {Request("update_core", VDict(id \o v \o d)) :
            id \in Identifiers, v \in Field("version", {VStr(""), VStr("6.4")}),
            d \in Field("dry_run", {VBool(TRUE), VBool(FALSE)})}
    \cup {Request("validate_sites", VDict(id \o c)) :
            id \in Field("site_id", {VInt(5)}),
            c \in Field("checks", Lists({"core", "all"}))}
    \cup {Request("get_jobs", VDict(s \o id \o l)) :
            s \in Field("status", {VStr("failed"), VStr("all")}),
            id \in Field("site_id", {VInt(5)}), l \in Field("limit", {VInt(10)})}
    \cup {Request(n, VDict(<<>>)) : n \in {"get_dashboard_stats", "delete_site", ""}}

\* What a child process can leave behind: exit status, stdout, stderr.
Execution(returncode, stdout, stderr) ==
    [returncode |-> returncode, stdout |-> stdout, stderr |-> stderr]

Executions ==
    {Execution(rc, out, err) :
        rc \in {0, 1},
        out \in {Bytes(""), Bytes("3 sites found"), BadBytes}
                \cup {Bytes(d) : d \in DOMAIN JsonDocuments},
        err \in {Bytes(""), Bytes("disk full"), BadBytes}}

\* A smaller choice of both, for runs with several invocations in flight.
ConcurrentRequests ==
    {Request("delete_site", VDict(<<>>)),
     Request("get_site_info", VDict(<<>>)),
     Request("restore_site", VDict(<< <<"site_id", VInt(5)>> >>)),
     Request("list_sites",
             VDict(<< <<"status", VStr("active")>>, <<"limit", VInt(10)>> >>)),
     Request("backup_site",
             VDict(<< <<"site_id", VInt(5)>>, <<"backup_type", VStr("files")>>,
                      <<"compression", VBool(FALSE)>> >>))}

ConcurrentExecutions ==
    {Execution(0, Bytes("{\"success\": true, \"sites\": 3}"), Bytes("")),
     Execution(0, Bytes("3 sites found"), Bytes("")),
     Execution(1, Bytes(""), Bytes("disk full")),
     Execution(1, Bytes("{\"success\": true, \"sites\": 3}"), BadBytes)}

\* ------------------------------------------------------------------- state
Inv == 1..NumInv

VARIABLES
    pc,         \* where each call_tool invocation stands
    request,    \* its CallToolRequest: tool name and argument bag
    cmd,        \* the command line _execute_agent_command built for it
    attempts,   \* its calls of create_subprocess_exec
    children,   \* the child processes started for it
    cwd,        \* the working directory its child was started in
    execution,  \* what its child left: returncode, stdout, stderr
    outcome,    \* what the builder or the runner returned or raised
    payload,    \* the dict serialised into its response
    response,   \* the CallToolResult handed back to the caller
    trace       \* the pipeline steps it has taken, in order

vars ==
    <<pc, request, cmd, attempts, children, cwd, execution, outcome, payload,
      response, trace>>

NoOutcome ==
    [k |-> "none", command |-> "", cmd_args |-> <<>>,
     value |-> VNull, exc |-> "", msg |-> ""]

Init ==
    /\ pc = [i \in Inv |-> "idle"]
    /\ request = [i \in Inv |-> Request("", VNull)]
    /\ cmd = [i \in Inv |-> <<>>]
    /\ attempts = [i \in Inv |-> 0]
    /\ children = [i \in Inv |-> 0]
    /\ cwd = [i \in Inv |-> ""]
    /\ execution = [i \in Inv |-> Execution(0, Bytes(""), Bytes(""))]
    /\ outcome = [i \in Inv |-> NoOutcome]
    /\ payload = [i \in Inv |-> VNull]
    /\ response = [i \in Inv |-> CallToolResult("", FALSE)]
    /\ trace = [i \in Inv |-> <<>>]

\* A runner that starts the process again after a failed run.
CanSpawnRetry(i) ==
    \/ pc[i] = "built"
    \/ /\ pc[i] = "result"
       /\ attempts[i] > 0
       /\ outcome[i].value.t = "dict"
       /\ Has(outcome[i].value, "exit_code")

\* The runner's try block is entered once, with the command line built.
CanSpawn(i) == pc[i] = "built"

\* A runner that reads the result without awaiting communicate().
CompletedEarly(i) == pc[i] \in {"running", "exited"}

\* `await process.communicate()` has returned before line 543 runs.
Completed(i) == pc[i] = "exited"

\* A runner that keeps what communicate() returned on the server object:
\* the invocation reads what the first invocation still at that point left.
CapturedShared(i) ==
    execution[CHOOSE j \in Inv : pc[j] = "exited" /\ \A k \in Inv : pc[k] = "exited" => j <= k]

\* stdout, stderr and process.returncode are locals of the invocation's
\* own _execute_agent_command frame.
Captured(i) == execution[i]

\* call_tool up to its first suspension: read the request, route it, run
\* the builder and, when the builder reaches the runner, build cmd.
Dispatch(i, req) ==
    /\ pc[i] = "idle"
    /\ request' = [request EXCEPT ![i] = req]
    /\ LET b == Route(req.name, Arguments(req.arguments))
       IN IF b.k = "exec"
          THEN /\ cmd' = [cmd EXCEPT ![i] = CommandLine(b.command, b.cmd_args)]
               /\ pc' = [pc EXCEPT ![i] = "built"]
               /\ trace' = [trace EXCEPT ![i] = Append(@, "build")]
               /\ UNCHANGED outcome
          ELSE /\ outcome' = [outcome EXCEPT ![i] = b]
               /\ pc' = [pc EXCEPT ![i] = "result"]
               /\ UNCHANGED <<cmd, trace>>
    /\ UNCHANGED <<attempts, children, cwd, execution, payload, response>>

\* await asyncio.create_subprocess_exec(*cmd, ..., cwd=self.agent_path)
Spawn(i, start) ==
    /\ CanSpawn(i)
    /\ attempts' = [attempts EXCEPT ![i] = @ + 1]
    /\ trace' = [trace EXCEPT ![i] = Append(@, "spawn")]
    /\ LET r == StartProcess(cmd[i], start)
       IN IF r.k = "raise"
          THEN /\ outcome' = [outcome EXCEPT ![i] = RunnerCatch(r)]
               /\ pc' = [pc EXCEPT ![i] = "result"]
               /\ UNCHANGED <<children, cwd>>
          ELSE /\ children' = [children EXCEPT ![i] = @ + 1]
               /\ cwd' = [cwd EXCEPT ![i] = agent_path]
               /\ pc' = [pc EXCEPT ![i] = "running"]
               /\ UNCHANGED outcome
    /\ UNCHANGED <<request, cmd, execution, payload, response>>

\* stdout, stderr = await process.communicate()
Communicate(i, er) ==
    /\ pc[i] = "running"
    /\ execution' = [execution EXCEPT ![i] = er]
    /\ pc' = [pc EXCEPT ![i] = "exited"]
    /\ trace' = [trace EXCEPT ![i] = Append(@, "wait")]
    /\ UNCHANGED <<request, cmd, attempts, children, cwd, outcome, payload, response>>

\* Lines 543-563: decode the output and return to the builder's caller.
Decode(i) ==
    /\ Completed(i)
    /\ outcome' = [outcome EXCEPT ![i] = RunnerCatch(DecodeOutput(Captured(i)))]
    /\ pc' = [pc EXCEPT ![i] = "result"]
    /\ trace' = [trace EXCEPT ![i] = Append(@, "decode")]
    /\ UNCHANGED <<request, cmd, attempts, children, cwd, execution, payload, response>>

\* Lines 512-524: the CallToolResult of the result, or of the exception
\* the except clause caught; an exception it does not catch leaves
\* call_tool.
Emit(i) ==
    /\ pc[i] = "result"
    /\ LET r == outcome[i]
           error == VDict(<< <<"success", VBool(FALSE)>>, <<"error", VStr(r.msg)>> >>)
       IN IF r.k = "raise" /\ ~IsException(r.exc)
          THEN /\ pc' = [pc EXCEPT ![i] = "raised"]
               /\ UNCHANGED <<payload, response, trace>>
          ELSE /\ payload' = [payload EXCEPT ![i] = IF r.k = "raise" THEN error ELSE r.value]
               /\ response' = [response EXCEPT ![i] =
                     IF r.k = "raise" THEN CallToolResult(JsonDumps(error), TRUE)
                     ELSE CallToolResult(JsonDumps(r.value), FALSE)]
               /\ pc' = [pc EXCEPT ![i] = "done"]
               /\ trace' = [trace EXCEPT ![i] = Append(@, "emit")]
    /\ UNCHANGED <<request, cmd, attempts, children, cwd, execution, outcome>>

\* One invocation, with every request and every child behaviour.
Next ==
    \/ \E req \in Requests : Dispatch(1, req)
    \/ \E start \in {"ok", "missing"} : Spawn(1, start)
    \/ \E er \in Executions : Communicate(1, er)
    \/ Decode(1)
    \/ Emit(1)

Spec == Init /\ [][Next]_vars

\* NumInv invocations in flight, interleaved at their suspension points.
NextConcurrent ==
    \E i \in Inv :
        \/ \E req \in ConcurrentRequests : Dispatch(i, req)
        \/ \E start \in {"ok", "missing"} : Spawn(i, start)
        \/ \E er \in ConcurrentExecutions : Communicate(i, er)
        \/ Decode(i)
        \/ Emit(i)

SpecConcurrent == Init /\ [][NextConcurrent]_vars

\* ============================================================== properties
\* The argument bag the builders see.
ArgsOf(i) == Arguments(request[i].arguments)
\* A payload whose "success" field is false.
Failed(v) == v.t = "dict" /\ Has(v, "success") /\ Get(v, "success") = VBool(FALSE)
\* The runner has decoded the output of the invocation's child.
Decoded(i) == \E j \in 1..Len(trace[i]) : trace[i][j] = "decode"
\* The stdout of the invocation's child is a document json.loads accepts.
Parseable(i) == execution[i].stdout.valid /\ IsJson(execution[i].stdout.text)

RECURSIVE SumTo(_, _)
SumTo(f, n) == IF n = 0 THEN 0 ELSE f[n] + SumTo(f, n - 1)

\* C1: call_tool always ends with a response and never with an exception
\* leaving it: whatever the tool name, the argument bag and the child's
\* behaviour, the invocation is never in state "raised"; a finished one
\* holds the serialised payload; a fault raised during dispatch, a failed
\* process start and an undecodable output all end as a payload with
\* success false and a non-empty error text.
C1_NoFaultEscapes ==
    \A i \in Inv :
        /\ pc[i] # "raised"
        /\ pc[i] = "done" =>
             /\ response[i].text = JsonDumps(payload[i])
             /\ response[i].text # ""
        /\ pc[i] = "done" /\ ( \/ outcome[i].k = "raise"
                               \/ attempts[i] > children[i]
                               \/ Decoded(i) /\ execution[i].returncode = 0
                                  /\ ~execution[i].stdout.valid ) =>
             /\ Failed(payload[i])
             /\ Has(payload[i], "error")
             /\ Get(payload[i], "error").t = "str"
             /\ Get(payload[i], "error").s # ""

\* restore_site without backup_id has raised KeyError and the caller holds
\* an error response.
C1_Witness ==
    \E i \in Inv :
        /\ pc[i] = "done"
        /\ request[i].name = "restore_site"
        /\ HasIdentifier(ArgsOf(i))
        /\ ~Has(ArgsOf(i), "backup_id")
        /\ outcome[i].exc = "KeyError"
        /\ Get(payload[i], "error") = VStr("'backup_id'")

\* C2: in every response, isError is set exactly when the payload's success
\* field is false.
C2_ErrorFlagMatchesSuccess ==
    \A i \in Inv : pc[i] = "done" => (response[i].isError <=> Failed(payload[i]))

\* C3: a tool name that is not registered ends as success false with the
\* error "Unknown tool: <name>" and isError set, and neither a command
\* line nor a process start is made for it.
C3_UnknownTool ==
    \A i \in Inv :
        pc[i] # "idle" /\ ~Registered(request[i].name) =>
            /\ cmd[i] = <<>>
            /\ attempts[i] = 0
            /\ children[i] = 0
            /\ pc[i] \in {"result", "done"}
            /\ pc[i] = "done" =>
                 /\ Failed(payload[i])
                 /\ Get(payload[i], "error") = VStr("Unknown tool: " \o request[i].name)
                 /\ response[i].isError

C3_Witness ==
    \E i \in Inv :
        /\ pc[i] = "done"
        /\ request[i].name = "delete_site"
        /\ response[i].isError
        /\ Get(payload[i], "error") = VStr("Unknown tool: delete_site")

\* C4: for the twelve identifier tools, an argument bag with neither
\* site_id nor site_path ends as the identifier-required payload, whatever
\* else the bag holds, and no process start is made.
C4_IdentifierRequired ==
    \A i \in Inv :
        /\ pc[i] # "idle"
        /\ request[i].name \in IdentifierTools
        /\ ~Has(ArgsOf(i), "site_id")
        /\ ~Has(ArgsOf(i), "site_path")
        => /\ outcome[i] = Return(IdentifierRequired)
           /\ cmd[i] = <<>>
           /\ attempts[i] = 0
           /\ children[i] = 0
           /\ pc[i] = "done" => payload[i] = IdentifierRequired

\* restore_site with other fields but no identifier (and no backup_id).
C4_Witness ==
    \E i \in Inv :
        /\ pc[i] = "done"
        /\ request[i].name = "restore_site"
        /\ ArgsOf(i) = VDict(<< <<"restore_type", VStr("full")>> >>)
        /\ payload[i] = IdentifierRequired

\* C5: an argument bag that violates the tool's inputSchema ends as success
\* false and no child process is started for it.
C5_SchemaViolationRejected ==
    \A i \in Inv :
        /\ pc[i] # "idle"
        /\ Registered(request[i].name)
        /\ ~Conforms(request[i].name, ArgsOf(i))
        => /\ children[i] = 0
           /\ pc[i] = "done" => Failed(payload[i])

\* C6: an invocation calls create_subprocess_exec at most once, the call
\* starts at most one child, an invocation past that call has made exactly
\* one, whatever the child returned; so the process starts never outnumber
\* the invocations.
C6_SingleSpawn ==
    /\ \A i \in Inv :
          /\ attempts[i] <= 1
          /\ children[i] <= attempts[i]
          /\ pc[i] \in {"idle", "built"} => attempts[i] = 0
          /\ pc[i] \in {"running", "exited"} \/ Decoded(i) =>
                attempts[i] = 1 /\ children[i] = 1
          /\ cmd[i] # <<>> /\ pc[i] \in {"result", "done"} => attempts[i] = 1
    /\ SumTo(children, NumInv) <= SumTo(attempts, NumInv)
    /\ SumTo(attempts, NumInv) <= Cardinality({i \in Inv : pc[i] # "idle"})

\* Every invocation has finished after a child that failed, and each has
\* had exactly one child.
C6_Witness ==
    \A i \in Inv :
        /\ pc[i] = "done"
        /\ execution[i].returncode # 0
        /\ Failed(payload[i])
        /\ children[i] = 1

Pipeline == <<"build", "spawn", "wait", "decode", "emit">>

\* C7: the steps of an invocation are taken in pipeline order, none twice:
\* its trace is a prefix of build, spawn, wait, decode, emit, or the run of
\* a failed start (build, spawn, emit) or of a builder that never reached
\* the runner (emit); the command line exists before the spawn and the
\* response only after the last step.
C7_PipelineOrder ==
    \A i \in Inv :
        /\ \/ \E n \in 0..Len(Pipeline) : trace[i] = SubSeq(Pipeline, 1, n)
           \/ trace[i] = <<"build", "spawn", "emit">>
           \/ trace[i] = <<"emit">>
        /\ attempts[i] > 0 => Len(cmd[i]) >= 3 /\ trace[i][1] = "build"
        /\ (pc[i] = "done") <=> (trace[i] # <<>> /\ trace[i][Len(trace[i])] = "emit")

\* One invocation has run the whole pipeline while another was suspended
\* on its child.
C7_Witness ==
    \E i, j \in Inv :
        /\ i # j
        /\ trace[i] = Pipeline
        /\ trace[j] = <<"build", "spawn", "wait">>

\* C8 as stated: whenever stdout parses, the parsed structure is what the
\* runner returns, for every exit status.
C8_ParsedForEveryStatus ==
    \A i \in Inv :
        Decoded(i) /\ Parseable(i) =>
            outcome[i] = Return(JsonLoads(execution[i].stdout.text))

\* C8 amended: with exit status 0 a stdout that parses is returned as
\* parsed, unchanged; with a nonzero status stdout is not looked at and the
\* result is a success-false payload that is not the parsed document; the
\* raw-text payload appears only with status 0 and a stdout that does not
\* parse.
C8_ParsedOnZeroExit ==
    \A i \in Inv :
        Decoded(i) =>
            /\ outcome[i].k = "return"
            /\ execution[i].returncode = 0 /\ Parseable(i) =>
                 outcome[i].value = JsonLoads(execution[i].stdout.text)
            /\ execution[i].returncode # 0 =>
                 /\ Failed(outcome[i].value)
                 /\ ~Has(outcome[i].value, "output")
                 /\ Parseable(i) =>
                      outcome[i].value # JsonLoads(execution[i].stdout.text)
            /\ outcome[i].value.t = "dict" /\ Has(outcome[i].value, "output") =>
                 execution[i].returncode = 0 /\ ~Parseable(i)

\* A child that printed a JSON document and exited with status 1: the
\* caller holds the failure payload with exit_code 1.
C8_Witness ==
    \E i \in Inv :
        /\ pc[i] = "done"
        /\ execution[i].returncode = 1
        /\ Parseable(i)
        /\ JsonLoads(execution[i].stdout.text) # payload[i]
        /\ Has(payload[i], "exit_code")
        /\ Get(payload[i], "exit_code") = VInt(1)

\* C9: after a nonzero exit the runner returns success false with
\* exit_code equal to the exit status and error equal to the stderr text,
\* or "Command failed" when stderr is empty.
C9_NonzeroExitEnvelope ==
    \A i \in Inv :
        Decoded(i) /\ execution[i].returncode # 0 =>
            /\ outcome[i].k = "return"
            /\ Failed(outcome[i].value)
            /\ Has(outcome[i].value, "exit_code")
            /\ Get(outcome[i].value, "exit_code") = VInt(execution[i].returncode)
            /\ ~NonEmpty(execution[i].stderr) =>
                 Get(outcome[i].value, "error") = VStr("Command failed")
            /\ NonEmpty(execution[i].stderr) /\ execution[i].stderr.valid =>
                 Get(outcome[i].value, "error") = VStr(execution[i].stderr.text)

\* C10: after exit status 0 with a stdout that does not parse the runner
\* returns success true with the raw stdout text as output and the stderr
\* text (null when empty) as error, never success false.
C10_SoftSuccess ==
    \A i \in Inv :
        Decoded(i) /\ execution[i].returncode = 0 /\ ~Parseable(i) =>
            /\ outcome[i].k = "return"
            /\ ~Failed(outcome[i].value)
            /\ Has(outcome[i].value, "success")
            /\ Get(outcome[i].value, "success") = VBool(TRUE)
            /\ Has(outcome[i].value, "output")
            /\ execution[i].stdout.valid =>
                 Get(outcome[i].value, "output") = VStr(execution[i].stdout.text)

\* The process start of the invocation failed: create_subprocess_exec was
\* called and no child exists.
StartFailed(i) == attempts[i] > children[i]

\* C11: when the child process cannot be started the runner does not
\* raise: it returns the two-field payload success false, error "Failed to
\* execute command: <cause>", without exit_code, and call_tool hands that
\* payload to the caller.
C11_StartFailureEnvelope ==
    \A i \in Inv :
        StartFailed(i) =>
            /\ pc[i] \in {"result", "done"}
            /\ outcome[i].k = "return"
            /\ Failed(outcome[i].value)
            /\ Len(outcome[i].value.o) = 2
            /\ ~Has(outcome[i].value, "exit_code")
            /\ \E cause \in {"[Errno 2] No such file or directory: 'php'",
                              "expected str, bytes or os.PathLike object, not int"} :
                    Get(outcome[i].value, "error")
                        = VStr("Failed to execute command: " \o cause)
            /\ pc[i] = "done" =>
                 /\ payload[i] = outcome[i].value
                 /\ response[i].text = JsonDumps(outcome[i].value)

\* The interpreter was missing for a well-formed list_sites call and the
\* caller holds the failure payload.
C11_Witness ==
    \E i \in Inv :
        /\ pc[i] = "done"
        /\ request[i].name = "list_sites"
        /\ StartFailed(i)
        /\ payload[i] = VDict(<< <<"success", VBool(FALSE)>>,
                                 <<"error", VStr("Failed to execute command: [Errno 2] No such file or directory: 'php'")>> >>)

\* The external command the agent's CLI knows each tool by.
ExternalCommand ==
    [list_sites |-> "sites:list", get_site_info |-> "sites:info",
     lock_site |-> "sites:lock", unlock_site |-> "sites:unlock",
     harden_site |-> "sites:harden", unharden_site |-> "sites:unharden",
     fix_permissions |-> "sites:fix-permissions", scan_site |-> "sites:scan",
     backup_site |-> "sites:backup", restore_site |-> "sites:restore",
     update_plugins |-> "sites:update-plugins",
     update_themes |-> "sites:update-themes",
     update_core |-> "sites:update-core", validate_sites |-> "validate:sites",
     get_jobs |-> "jobs:list", get_dashboard_stats |-> "dashboard:stats"]

\* The invocation has built a command line for the runner.
Built(i) == cmd[i] # <<>>

\* C12: every command line built starts with the interpreter, then
\* <agent root>/cli.php, then the external command of the tool that was
\* called, all three as strings; the mapping from tools to commands is
\* one-to-one; a command line is built only for a registered tool; and a
\* child that was started runs in the agent root.
C12_CommandLineHead ==
    /\ \A a, b \in DOMAIN ExternalCommand :
          ExternalCommand[a] = ExternalCommand[b] => a = b
    /\ \A i \in Inv :
          /\ Built(i) =>
               /\ request[i].name \in DOMAIN ExternalCommand
               /\ Len(cmd[i]) >= 3
               /\ cmd[i][1] = VStr("php")
               /\ cmd[i][2] = VStr("/app/agent/cli.php")
               /\ cmd[i][3] = VStr(ExternalCommand[request[i].name])
          /\ children[i] > 0 => Built(i) /\ cwd[i] = "/app/agent"
          /\ children[i] = 0 => cwd[i] = ""

\* unlock_site was called with a path, its child was started in the agent
\* root with the command sites:unlock.
C12_Witness ==
    \E i \in Inv :
        /\ request[i].name = "unlock_site"
        /\ children[i] = 1
        /\ cwd[i] = "/app/agent"
        /\ cmd[i] = <<VStr("php"), VStr("/app/agent/cli.php"),
                      VStr("sites:unlock"), VStr("--path"), VStr("/var/www/blog")>>

\* The scalar string and integer fields each tool declares, with the flag
\* its builder gives them.
IdentifierFields == {<<"site_id", "--id">>, <<"site_path", "--path">>}

ScalarFields(name) ==
    CASE name = "list_sites" -> {<<"status", "--status">>, <<"limit", "--limit">>}
      [] name = "lock_site" -> IdentifierFields \cup {<<"message", "--message">>}
      [] name = "backup_site" -> IdentifierFields \cup {<<"backup_type", "--type">>}
      [] name = "restore_site" ->
            IdentifierFields \cup {<<"backup_id", "--backup-id">>,
                                   <<"restore_type", "--type">>}
      [] name = "update_core" -> IdentifierFields \cup {<<"version", "--version">>}
      [] name = "validate_sites" -> {<<"site_id", "--id">>}
      [] name = "get_jobs" ->
            {<<"status", "--status">>, <<"site_id", "--site-id">>,
             <<"limit", "--limit">>}
      [] name \in IdentifierTools -> IdentifierFields
      [] OTHER -> {}

\* The token a scalar value is passed as: integers in decimal, strings as
\* they are.
Token(key, value) ==
    IF key \in {"site_id", "limit"} THEN VStr(PyStr(value)) ELSE value

\* Where a flag stands among the tokens after the command name.
FlagAt(i, flag) == {j \in 4..Len(cmd[i]) : cmd[i][j] = VStr(flag)}

\* The flag stands once, with the value right after it.
EmittedOnce(i, flag, token) ==
    /\ Cardinality(FlagAt(i, flag)) = 1
    /\ \A j \in FlagAt(i, flag) : j < Len(cmd[i]) /\ cmd[i][j + 1] = token

\* The supplied values the builders leave out on purpose.
LeftOut(args, key) ==
    \/ key = "status" /\ Get(args, "status") = VStr("all")
    \/ key = "version" /\ ~Truthy(Get(args, "version"))
    \/ key = "site_path" /\ Has(args, "site_id")

\* C13 as stated: every supplied scalar field stands on the command line
\* as one flag followed by its value, whatever the value is.
C13_EveryScalarEmitted ==
    \A i \in Inv :
        Built(i) =>
            \A f \in ScalarFields(request[i].name) :
                Has(ArgsOf(i), f[1]) =>
                    EmittedOnce(i, f[2], Token(f[1], Get(ArgsOf(i), f[1])))

\* C13 amended: every supplied scalar field stands on the command line as
\* one flag followed by its value, except status "all" (list_sites,
\* get_jobs), an empty version (update_core) and a site_path given next to
\* a site_id, for which the flag does not appear at all; list_sites with
\* status "active" and limit 10 builds sites:list --status active --limit 10.
C13_ScalarEmittedUnlessLeftOut ==
    \A i \in Inv :
        Built(i) =>
            /\ \A f \in ScalarFields(request[i].name) :
                  Has(ArgsOf(i), f[1]) =>
                      IF LeftOut(ArgsOf(i), f[1])
                      THEN FlagAt(i, f[2]) = {}
                      ELSE EmittedOnce(i, f[2], Token(f[1], Get(ArgsOf(i), f[1])))
            /\ request[i] = Request("list_sites",
                    VDict(<< <<"status", VStr("active")>>, <<"limit", VInt(10)>> >>)) =>
                  SubSeq(cmd[i], 3, Len(cmd[i]))
                      = <<VStr("sites:list"), VStr("--status"), VStr("active"),
                          VStr("--limit"), VStr("10")>>

\* list_sites with status "all" and limit 10 has been spawned with the
\* limit alone.
C13_Witness ==
    \E i \in Inv :
        /\ children[i] = 1
        /\ request[i].name = "list_sites"
        /\ Has(ArgsOf(i), "status")
        /\ Get(ArgsOf(i), "status") = VStr("all")
        /\ SubSeq(cmd[i], 3, Len(cmd[i]))
              = <<VStr("sites:list"), VStr("--limit"), VStr("10")>>

\* The flag names of the boolean fields, underscores turned into hyphens;
\* compression goes by --compress.
BooleanFlag ==
    [compression |-> "compress", dry_run |-> "dry-run",
     recursive |-> "recursive", disable_file_editing |-> "disable-file-editing",
     hide_wp_version |-> "hide-wp-version", disable_xmlrpc |-> "disable-xmlrpc"]

\* The boolean items of the options object of the invocation.
BooleanOptions(i) ==
    IF Has(ArgsOf(i), "options") /\ Get(ArgsOf(i), "options").t = "dict"
    THEN LET o == Get(ArgsOf(i), "options").o
         IN {o[j] : j \in {j \in 1..Len(o) : o[j][2].t = "bool"}}
    ELSE {}

\* The boolean fields at the top level of the argument bag.
BooleanFields(i) ==
    {<<k, Get(ArgsOf(i), k)>> :
        k \in {k \in (IF request[i].name = "backup_site" THEN {"compression"}
                      ELSE IF request[i].name \in {"update_plugins", "update_themes",
                                                    "update_core"}
                      THEN {"dry_run"} ELSE {}) :
                  Has(ArgsOf(i), k) /\ Get(ArgsOf(i), k).t = "bool"}}

Once(i, flag) == Cardinality(FlagAt(i, flag)) = 1
Never(i, flag) == FlagAt(i, flag) = {}

\* C14: in harden_site a boolean option k stands as --k when true and as
\* --no-k when false, never both; in fix_permissions options and in the
\* compression and dry_run fields true stands as the bare flag once and
\* false as no token; backup_site with site_id 5, backup_type "files" and
\* compression false builds sites:backup --id 5 --type files.
C14_BooleanFlags ==
    \A i \in Inv :
        Built(i) =>
            /\ request[i].name = "harden_site" =>
                 \A kv \in BooleanOptions(i) :
                    IF kv[2].b
                    THEN /\ Once(i, "--" \o BooleanFlag[kv[1]])
                         /\ Never(i, "--no-" \o BooleanFlag[kv[1]])
                    ELSE /\ Once(i, "--no-" \o BooleanFlag[kv[1]])
                         /\ Never(i, "--" \o BooleanFlag[kv[1]])
            /\ \A kv \in BooleanFields(i) \cup
                          (IF request[i].name = "fix_permissions"
                           THEN BooleanOptions(i) ELSE {}) :
                    /\ IF kv[2].b THEN Once(i, "--" \o BooleanFlag[kv[1]])
                       ELSE Never(i, "--" \o BooleanFlag[kv[1]])
                    /\ Never(i, "--no-" \o BooleanFlag[kv[1]])
            /\ request[i] = Request("backup_site",
                    VDict(<< <<"site_id", VInt(5)>>, <<"backup_type", VStr("files")>>,
                             <<"compression", VBool(FALSE)>> >>)) =>
                  SubSeq(cmd[i], 3, Len(cmd[i]))
                      = <<VStr("sites:backup"), VStr("--id"), VStr("5"),
                          VStr("--type"), VStr("files")>>

\* harden_site with one option false and one true has been spawned with
\* --no-hide-wp-version and --disable-xmlrpc.
C14_Witness ==
    \E i \in Inv :
        /\ children[i] = 1
        /\ request[i].name = "harden_site"
        /\ BooleanOptions(i) = {<<"hide_wp_version", VBool(FALSE)>>,
                                 <<"disable_xmlrpc", VBool(TRUE)>>}
        /\ SubSeq(cmd[i], 3, Len(cmd[i]))
              = <<VStr("sites:harden"), VStr("--id"), VStr("5"),
                  VStr("--no-hide-wp-version"), VStr("--disable-xmlrpc")>>

\* The list field of each tool that has one, with its singular flag.
ListField ==
    [scan_site |-> <<"scan_types", "--scan">>,
     update_plugins |-> <<"plugins", "--plugin">>,
     update_themes |-> <<"themes", "--theme">>,
     validate_sites |-> <<"checks", "--check">>]

\* The tokens that follow a flag in a token sequence, in order.
RECURSIVE ValuesOf(_, _)
ValuesOf(tokens, flag) ==
    IF tokens = <<>> THEN <<>>
    ELSE IF Head(tokens) = VStr(flag) /\ Len(tokens) >= 2
    THEN <<tokens[2]>> \o ValuesOf(Tail(Tail(tokens)), flag)
    ELSE ValuesOf(Tail(tokens), flag)

\* C15: for a list field the command line carries one pair of the
\* singular flag and an element per element of the list, in the order of
\* the list and next to each other, and no such flag for an empty list.
C15_ListPairsInOrder ==
    \A i \in Inv :
        Built(i) /\ request[i].name \in DOMAIN ListField =>
            LET f == ListField[request[i].name]
                tokens == SubSeq(cmd[i], 4, Len(cmd[i]))
            IN Has(ArgsOf(i), f[1]) /\ Get(ArgsOf(i), f[1]).t = "list" =>
                 LET xs == Get(ArgsOf(i), f[1]).l
                 IN /\ ValuesOf(tokens, f[2]) = xs
                    /\ Cardinality(FlagAt(i, f[2])) = Len(xs)
                    /\ \A j, k \in FlagAt(i, f[2]) :
                          j < k => \A m \in j..k : (m - j) % 2 = 0 => m \in FlagAt(i, f[2])
                    /\ xs = <<>> => FlagAt(i, f[2]) = {}

\* update_plugins with plugins a, b has been spawned with --plugin a
\* --plugin b.
C15_Witness ==
    \E i \in Inv :
        /\ children[i] = 1
        /\ request[i] = Request("update_plugins",
                VDict(<< <<"site_id", VInt(5)>>,
                         <<"plugins", VList(<<VStr("a"), VStr("b")>>)>> >>))
        /\ SubSeq(cmd[i], 3, Len(cmd[i]))
              = <<VStr("sites:update-plugins"), VStr("--id"), VStr("5"),
                  VStr("--plugin"), VStr("a"), VStr("--plugin"), VStr("b")>>

\* The flag names of all option keys, underscores turned into hyphens.
OptionFlag ==
    BooleanFlag @@ [owner |-> "owner", group |-> "group", mode |-> "mode",
                    level |-> "level"]

\* The items of the options object of the invocation.
Options(i) ==
    IF Has(ArgsOf(i), "options") /\ Get(ArgsOf(i), "options").t = "dict"
    THEN LET o == Get(ArgsOf(i), "options").o IN {o[j] : j \in 1..Len(o)}
    ELSE {}

\* C16 as stated: in harden_site and fix_permissions every inner true
\* stands as its bare flag and every inner string or number as --key
\* followed by the value; none is dropped.
C16_NoInnerValueDropped ==
    \A i \in Inv :
        Built(i) /\ request[i].name \in {"harden_site", "fix_permissions"} =>
            \A kv \in Options(i) :
                /\ kv[2].t = "bool" /\ kv[2].b => Once(i, "--" \o OptionFlag[kv[1]])
                /\ kv[2].t \in {"str", "int"} =>
                     EmittedOnce(i, "--" \o OptionFlag[kv[1]],
                                 IF kv[2].t = "int" THEN VStr(PyStr(kv[2])) ELSE kv[2])

\* C16 amended: in both tools every inner true stands as its bare flag; in
\* fix_permissions every inner string stands as --key followed by the
\* string and any other non-boolean value adds no token; in harden_site
\* every non-boolean inner value adds no token; the command line holds
\* nothing else after the identifier pair.
C16_OptionsFlattened ==
    \A i \in Inv :
        Built(i) /\ request[i].name \in {"harden_site", "fix_permissions"} =>
            /\ \A kv \in Options(i) :
                  /\ kv[2].t = "bool" /\ kv[2].b => Once(i, "--" \o OptionFlag[kv[1]])
                  /\ kv[2].t # "bool" =>
                       IF request[i].name = "fix_permissions" /\ kv[2].t = "str"
                       THEN EmittedOnce(i, "--" \o OptionFlag[kv[1]], kv[2])
                       ELSE /\ Never(i, "--" \o OptionFlag[kv[1]])
                            /\ Never(i, "--no-" \o OptionFlag[kv[1]])
                            /\ \A j \in 4..Len(cmd[i]) :
                                  cmd[i][j] \notin {kv[2], VStr(PyStr(kv[2]))}
            /\ Len(cmd[i]) = 5
                  + (IF request[i].name = "harden_site"
                     THEN Cardinality(BooleanOptions(i))
                     ELSE Cardinality({kv \in BooleanOptions(i) : kv[2].b})
                          + 2 * Cardinality({kv \in Options(i) : kv[2].t = "str"}))

\* fix_permissions with a group and a numeric mode has been spawned with
\* the group alone.
C16_Witness ==
    \E i \in Inv :
        /\ children[i] = 1
        /\ request[i].name = "fix_permissions"
        /\ Options(i) = {<<"group", VStr("www-data")>>, <<"mode", VInt(755)>>}
        /\ SubSeq(cmd[i], 3, Len(cmd[i]))
              = <<VStr("sites:fix-permissions"), VStr("--path"),
                  VStr("/var/www/blog"), VStr("--group"), VStr("www-data")>>

\* What call_tool returns for a request when it runs alone, given whether
\* the process start failed and what the child left.
Alone(req, failed, er) ==
    LET b == Route(req.name, Arguments(req.arguments))
        r == IF b.k # "exec" THEN b
             ELSE IF failed
             THEN RunnerCatch(StartProcess(CommandLine(b.command, b.cmd_args), "missing"))
             ELSE RunnerCatch(DecodeOutput(er))
        value == IF r.k = "raise"
                 THEN VDict(<< <<"success", VBool(FALSE)>>, <<"error", VStr(r.msg)>> >>)
                 ELSE r.value
    IN CallToolResult(JsonDumps(value), r.k = "raise")

\* C17: with any number of invocations in flight and in any interleaving,
\* the command line of an invocation is the one its own request builds,
\* with the configured interpreter and agent root; its response is the
\* one the same request, start outcome and child result give an
\* invocation that runs alone; and two invocations with the same request
\* and the same child result hold the same command line and response.
C17_Independent ==
    \A i \in Inv :
        /\ pc[i] # "idle" =>
             LET b == Route(request[i].name, ArgsOf(i))
             IN /\ Built(i) <=> b.k = "exec"
                /\ Built(i) =>
                     /\ cmd[i] = CommandLine(b.command, b.cmd_args)
                     /\ cmd[i][1] = VStr("php")
                     /\ cmd[i][2] = VStr("/app/agent/cli.php")
        /\ children[i] > 0 => cwd[i] = "/app/agent"
        /\ pc[i] = "done" =>
             response[i] = Alone(request[i], StartFailed(i), execution[i])
        /\ \A j \in Inv :
             /\ pc[i] # "idle" /\ pc[j] # "idle" /\ request[i] = request[j] =>
                  cmd[i] = cmd[j]
             /\ pc[i] = "done" /\ pc[j] = "done" /\ request[i] = request[j]
                /\ (StartFailed(i) <=> StartFailed(j))
                /\ execution[i] = execution[j] =>
                  response[i] = response[j] /\ payload[i] = payload[j]

\* Two invocations have both run a child to the end, with different
\* requests and different child results, and each holds its own payload.
C17_Witness ==
    \E i, j \in Inv :
        /\ pc[i] = "done" /\ pc[j] = "done"
        /\ request[i].name = "list_sites" /\ request[j].name = "backup_site"
        /\ execution[i] = Execution(0, Bytes("{\"success\": true, \"sites\": 3}"), Bytes(""))
        /\ execution[j] = Execution(1, Bytes(""), Bytes("disk full"))
        /\ payload[i] = VDict(<< <<"success", VBool(TRUE)>>, <<"sites", VInt(3)>> >>)
        /\ Get(payload[j], "error") = VStr("disk full")

\* C18: for the twelve identifier tools every command line built has
\* exactly one identifier flag, and it is the first token after the
\* command name, followed by its value: --id with the site_id whenever
\* site_id is given (site_path given as well or not; --path then never
\* appears), --path with the site_path only when site_id is absent; a bag
\* with both is not answered with the identifier-required payload.
C18_OneIdentifierFlag ==
    \A i \in Inv :
        request[i].name \in IdentifierTools =>
            /\ Built(i) =>
                 /\ Len(cmd[i]) >= 5
                 /\ FlagAt(i, "--id") \cup FlagAt(i, "--path") = {4}
                 /\ IF Has(ArgsOf(i), "site_id")
                    THEN /\ cmd[i][4] = VStr("--id")
                         /\ cmd[i][5] = VStr(PyStr(Get(ArgsOf(i), "site_id")))
                    ELSE /\ Has(ArgsOf(i), "site_path")
                         /\ cmd[i][4] = VStr("--path")
                         /\ cmd[i][5] = Get(ArgsOf(i), "site_path")
            /\ pc[i] # "idle" /\ Has(ArgsOf(i), "site_id")
               /\ Has(ArgsOf(i), "site_path") =>
                 /\ outcome[i] # Return(IdentifierRequired)
                 /\ pc[i] = "done" => payload[i] # IdentifierRequired
                 /\ Built(i) \/ outcome[i].k = "raise"

\* lock_site with both site_id and site_path has been spawned with --id 5
\* and no --path.
C18_Witness ==
    \E i \in Inv :
        /\ children[i] = 1
        /\ request[i].name = "lock_site"
        /\ Has(ArgsOf(i), "site_id")
        /\ Has(ArgsOf(i), "site_path")
        /\ SubSeq(cmd[i], 3, Len(cmd[i]))
              = <<VStr("sites:lock"), VStr("--id"), VStr("5"),
                  VStr("--message"), VStr("maintenance")>>

====
